---------------------------- MODULE Spec2Model ----------------------------
(***************************************************************************)
(* Model of the two calculators of the glyphinator scripts:                *)
(*   scripts/rs-test.py   Reed-Solomon ECC over GF(2^8), polynomial 301    *)
(*   scripts/bch-test.py  BCH remainder over GF(2)                         *)
(* Python sequences are 0-based; the tuples below are 1-based, so a Python *)
(* subscript x[k] is written x[k + 1].                                     *)
(***************************************************************************)
EXTENDS Integers, Sequences, FiniteSets, TLC

VARIABLES
    \* galois_mult(a, b) applied to one pair of operands
    op_a, op_b, prod, gf_pc,
    \* calc_bch(v, vw, p, pw): the argument, the register v, the loop index
    bch_arg, bch_v, bch_i, bch_pc,
    \* factor_table(ecc_size) calls: the module-level dict; the argument
    \* ecc_size and the return value of the latest call; the log of the calls
    \* returned so far (argument, value returned, whether the builder ran);
    \* the builder's locals factors, i, j and the call's position
    factor_tables, ft_n, ft_ret, ft_hist, factors, ft_i, ft_j, ft_pc,
    \* the rs-test.py script: its module-level variables and its position
    data0, data, data_size, ecc_size, pad_start, pad_i, ecc, t, f, i, j,
    old, pc, outcome

gfvars  == <<op_a, op_b, prod, gf_pc>>
bchvars == <<bch_arg, bch_v, bch_i, bch_pc>>
ftvars  == <<factor_tables, ft_n, ft_ret, ft_hist, factors, ft_i, ft_j,
             ft_pc>>
rsvars  == <<data0, data, data_size, ecc_size, pad_start, pad_i, ecc, t, f,
             i, j, old, pc, outcome>>
vars    == <<gfvars, bchvars, ftvars, rsvars>>

---------------------------------------------------------------------------
(* Bit arithmetic on naturals.                                             *)

\* Python computes a value before it is used: Strict(x, e) is e, with x
\* evaluated first (TLC would otherwise defer x, and nest the deferred
\* evaluations of a long loop)
Strict(x, e) == IF x = x THEN e ELSE e

Pow2(n) == 2 ^ n

RECURSIVE XorW(_, _, _)
\* the bitwise exclusive or of two w-bit numbers, w a power of two: the
\* exclusive or of their low halves and of their high halves
XorW(x, y, w) ==
    IF w = 1 THEN (x + y) % 2
    ELSE XorW(x % Pow2(w \div 2), y % Pow2(w \div 2), w \div 2)
         + (Pow2(w \div 2)
            * XorW(x \div Pow2(w \div 2), y \div Pow2(w \div 2), w \div 2))

\* Python's ^ on non-negative integers below 2^16, which every value of
\* the two scripts' runs is
Xor(x, y) == XorW(x, y, 16)

\* Python's << on non-negative integers
Shl(x, n) == x * Pow2(n)

\* Python's int.bit_length(): the number of bits needed to represent x,
\* for x below 2^16
BitWidth(x) ==
    CHOOSE w \in 0..16 : x < Pow2(w) /\ (w = 0 \/ Pow2(w - 1) <= x)

---------------------------------------------------------------------------
(* rs-test.py: GF(2^8) arithmetic by log and antilog tables.               *)

galois_log ==
    <<
    -255, 255, 1, 240, 2, 225, 241, 53, 3, 38, 226, 133, 242, 43, 54, 210, 4,
    195, 39, 114, 227, 106, 134, 28, 243, 140, 44, 23, 55, 118, 211, 234, 5,
    219, 196, 96, 40, 222, 115, 103, 228, 78, 107, 125, 135, 8, 29, 162, 244,
    186, 141, 180, 45, 99, 24, 49, 56, 13, 119, 153, 212, 199, 235, 91, 6,
    76, 220, 217, 197, 11, 97, 184, 41, 36, 223, 253, 116, 138, 104, 193,
    229, 86, 79, 171, 108, 165, 126, 145, 136, 34, 9, 74, 30, 32, 163, 84,
    245, 173, 187, 204, 142, 81, 181, 190, 46, 88, 100, 159, 25, 231, 50,
    207, 57, 147, 14, 67, 120, 128, 154, 248, 213, 167, 200, 63, 236, 110,
    92, 176, 7, 161, 77, 124, 221, 102, 218, 95, 198, 90, 12, 152, 98, 48,
    185, 179, 42, 209, 37, 132, 224, 52, 254, 239, 117, 233, 139, 22, 105,
    27, 194, 113, 230, 206, 87, 158, 80, 189, 172, 203, 109, 175, 166, 62,
    127, 247, 146, 66, 137, 192, 35, 252, 10, 183, 75, 216, 31, 83, 33, 73,
    164, 144, 85, 170, 246, 65, 174, 61, 188, 202, 205, 157, 143, 169, 82,
    72, 182, 215, 191, 251, 47, 178, 89, 151, 101, 94, 160, 123, 26, 112,
    232, 21, 51, 238, 208, 131, 58, 69, 148, 18, 15, 16, 68, 17, 121, 149,
    129, 19, 155, 59, 249, 70, 214, 250, 168, 71, 201, 156, 64, 60, 237, 130,
    111, 20, 93, 122, 177, 150 >>

galois_antilog ==
    <<
    1, 2, 4, 8, 16, 32, 64, 128, 45, 90, 180, 69, 138, 57, 114, 228, 229,
    231, 227, 235, 251, 219, 155, 27, 54, 108, 216, 157, 23, 46, 92, 184, 93,
    186, 89, 178, 73, 146, 9, 18, 36, 72, 144, 13, 26, 52, 104, 208, 141, 55,
    110, 220, 149, 7, 14, 28, 56, 112, 224, 237, 247, 195, 171, 123, 246,
    193, 175, 115, 230, 225, 239, 243, 203, 187, 91, 182, 65, 130, 41, 82,
    164, 101, 202, 185, 95, 190, 81, 162, 105, 210, 137, 63, 126, 252, 213,
    135, 35, 70, 140, 53, 106, 212, 133, 39, 78, 156, 21, 42, 84, 168, 125,
    250, 217, 159, 19, 38, 76, 152, 29, 58, 116, 232, 253, 215, 131, 43, 86,
    172, 117, 234, 249, 223, 147, 11, 22, 44, 88, 176, 77, 154, 25, 50, 100,
    200, 189, 87, 174, 113, 226, 233, 255, 211, 139, 59, 118, 236, 245, 199,
    163, 107, 214, 129, 47, 94, 188, 85, 170, 121, 242, 201, 191, 83, 166,
    97, 194, 169, 127, 254, 209, 143, 51, 102, 204, 181, 71, 142, 49, 98,
    196, 165, 103, 206, 177, 79, 158, 17, 34, 68, 136, 61, 122, 244, 197,
    167, 99, 198, 161, 111, 222, 145, 15, 30, 60, 120, 240, 205, 183, 67,
    134, 33, 66, 132, 37, 74, 148, 5, 10, 20, 40, 80, 160, 109, 218, 153, 31,
    62, 124, 248, 221, 151, 3, 6, 12, 24, 48, 96, 192, 173, 119, 238, 241,
    207, 179, 75, 150, 1 >>

\* galois_mult with an explicit zero test, which the script does not make
galois_mult_zero_checked(a, b) ==
    IF a = 0 \/ b = 0 THEN 0
    ELSE galois_antilog[((galois_log[a + 1] + galois_log[b + 1]) % 255) + 1]

\* galois_mult reducing the exponent modulo the table length
galois_mult_mod256(a, b) ==
    galois_antilog[((galois_log[a + 1] + galois_log[b + 1]) % 256) + 1]

\* def galois_mult(a, b)
galois_mult(a, b) ==
    galois_antilog[((galois_log[a + 1] + galois_log[b + 1]) % 255) + 1]

RECURSIVE galois_pow_loop(_, _, _)
\* the loop of galois_pow, r = galois_mult(r, a) run n times from r: its
\* first n \div 2 iterations, then the remaining ones from their result
galois_pow_loop(r, a, n) ==
    Strict(r,
           IF n = 0 THEN r
           ELSE IF n = 1 THEN galois_mult(r, a)
           ELSE galois_pow_loop(galois_pow_loop(r, a, n \div 2), a,
                                n - (n \div 2)))

\* def galois_pow(a, b)
galois_pow(a, b) ==
    IF b = 0 THEN 1
    ELSE IF b = 1 THEN a
    ELSE galois_pow_loop(a, a, b - 1)

---------------------------------------------------------------------------
(* rs-test.py: the generator polynomial's factor table.                    *)

\* factor_tables: the hard-coded tables, keyed by the number of ecc bytes
FactorTablesInit ==
    (5 :> <<228, 48, 15, 111, 62>>) @@
    (7 :> <<23, 68, 144, 134, 240, 92, 254>>) @@
    (10 :> <<28, 24, 185, 166, 223, 248, 116, 255, 110, 61>>) @@
    (12 :> <<41, 153, 158, 91, 61, 42, 142, 213, 97, 178, 100, 242>>) @@
    (14 :> <<156, 97, 192, 252, 95, 9, 157, 119, 138, 45, 18, 186, 83,
             185>>) @@
    (18 :> <<83, 195, 100, 39, 188, 75, 66, 61, 241, 213, 109, 129, 94, 254,
             225, 48, 90, 188>>) @@
    (20 :> <<15, 195, 244, 9, 233, 71, 168, 2, 188, 160, 153, 145, 253, 79,
             108, 82, 27, 174, 186, 172>>)

\* bytearray(n): n zero bytes
ZeroBytes(n) == [k \in 1..n |-> 0]

\* the builder's update of factors[j] multiplying by the root 2 at every i
\* instead of by galois_pow(2, i)
BuilderStepNoRootPower(fac, k, m) ==
    [fac EXCEPT ![m + 1] =
        IF m > 0 THEN Xor(galois_mult(fac[m + 1], 2), fac[m])
        ELSE galois_mult(fac[m + 1], 2)]

\* the body of the builder's inner loop for i = k, j = m:
\*   factors[j] = galois_mult(factors[j], galois_pow(2, i))
\*   if (j > 0): factors[j] = factors[j] ^ factors[j-1]
BuilderStep(fac, k, m) ==
    [fac EXCEPT ![m + 1] =
        IF m > 0 THEN Xor(galois_mult(fac[m + 1], galois_pow(2, k)), fac[m])
        ELSE galois_mult(fac[m + 1], galois_pow(2, k))]

\* factor_tables after a miss, had the built table been stored under its key
TablesAfterMissStored(tables, n, built) ==
    [k \in DOMAIN tables \cup {n} |-> IF k = n THEN built ELSE tables[k]]

\* factor_tables after a miss: factor_table returns the built table and
\* assigns nothing to the dict
TablesAfterMiss(tables, n, built) == tables

---------------------------------------------------------------------------
(* rs-test.py: padding and the ECC loop.                                   *)

\* the pad byte without the replacement of 0 by 254
PadByteNoZeroFix(k) == (((149 * (k + 1)) % 253) + 130) % 254

\* the else branch of the padding loop, at index i = k
PadByte(k) ==
    LET padp == (((149 * (k + 1)) % 253) + 130) % 254
    IN  IF padp = 0 THEN 254 ELSE padp

\* the byte appended by the padding loop at index i = k
PadAppend(k, start) == IF k = start THEN 129 ELSE PadByte(k)

\* the ECC loop's body with the factor table read in forward order
EccStepForwardFactors(e, tt, ff, m, n) ==
    LET term == IF tt = 0 THEN 0
                ELSE galois_antilog[((galois_log[tt + 1]
                                      + galois_log[ff[m + 1] + 1]) % 255) + 1]
    IN  [e EXCEPT ![m + 1] = IF m + 1 < n THEN Xor(e[m + 2], term) ELSE term]

\* the ECC loop's body XOR-ing the slot just written to the left, ecc[j-1],
\* instead of the slot to the right
EccStepReadsLeft(e, tt, ff, m, n) ==
    LET term == IF tt = 0 THEN 0
                ELSE galois_antilog[((galois_log[tt + 1]
                                      + galois_log[ff[n - m] + 1]) % 255) + 1]
    IN  [e EXCEPT ![m + 1] = IF m > 0 THEN Xor(e[m], term) ELSE term]

\* the body of the ECC loop's inner loop for j = m:
\*   ecc[j] = 0 if t == 0 else antilog[(log[t] + log[f[ecc_size-j-1]]) % 255]
\*   if ((j+1) < ecc_size): ecc[j] = ecc[j+1] ^ ecc[j]
EccStep(e, tt, ff, m, n) ==
    LET term == IF tt = 0 THEN 0
                ELSE galois_antilog[((galois_log[tt + 1]
                                      + galois_log[ff[n - m] + 1]) % 255) + 1]
    IN  [e EXCEPT ![m + 1] = IF m + 1 < n THEN Xor(e[m + 2], term) ELSE term]

---------------------------------------------------------------------------
(* bch-test.py: calc_bch.                                                  *)

\* the arguments of the script's calls: calc_bch(i, 5, p, 11), p = 1335
bch_vw == 5
bch_p  == 1335
bch_pw == 11

\* the loop body keeping the larger of v and test
BchStepKeepsLarger(v, p, k) ==
    LET test == Xor(v, Shl(p, k))
    IN  IF test > v THEN test ELSE v

\* the body of calc_bch's loop for i = k:
\*   test = v ^ (p << i); if (test < v): v = test
BchStep(v, p, k) ==
    LET test == Xor(v, Shl(p, k))
    IN  IF test < v THEN test ELSE v

---------------------------------------------------------------------------
(* The resting values of each script's variables while another one runs.   *)

GfIdle  == op_a = 0 /\ op_b = 0 /\ prod = -1 /\ gf_pc = "idle"
BchIdle == bch_arg = 0 /\ bch_v = 0 /\ bch_i = 0 /\ bch_pc = "idle"
FtIdle  == /\ factor_tables = FactorTablesInit
           /\ ft_n = -1 /\ ft_ret = <<>> /\ ft_hist = <<>>
           /\ factors = <<>> /\ ft_i = 0 /\ ft_j = 0 /\ ft_pc = "ready"
RsIdle  == /\ data0 = <<>> /\ data = <<>> /\ data_size = 0 /\ ecc_size = 0
           /\ pad_start = 0 /\ pad_i = 0 /\ ecc = <<>> /\ t = 0 /\ f = <<>>
           /\ i = 0 /\ j = 0 /\ old = <<>> /\ pc = "idle" /\ outcome = "none"

---------------------------------------------------------------------------
(* galois_mult applied to every pair of bytes.                             *)

InitGF ==
    /\ op_a \in 0..255 /\ op_b \in 0..255
    /\ prod = -1 /\ gf_pc = "call"
    /\ BchIdle /\ FtIdle /\ RsIdle

GaloisMult ==
    /\ gf_pc = "call"
    /\ prod' = galois_mult(op_a, op_b)
    /\ gf_pc' = "done"
    /\ UNCHANGED <<op_a, op_b, bchvars, ftvars, rsvars>>

NextGF == GaloisMult

SpecGF == InitGF /\ [][NextGF]_vars

---------------------------------------------------------------------------
(* bch-test.py: calc_bch(i, 5, p, 11) for i in range(32).                  *)

InitBCH ==
    /\ bch_arg \in 0..(Pow2(bch_vw) - 1)
    /\ bch_v = bch_arg /\ bch_i = bch_vw - 1 /\ bch_pc = "shift"
    /\ GfIdle /\ FtIdle /\ RsIdle

\* v = v << (pw - 1)
BchShift ==
    /\ bch_pc = "shift"
    /\ bch_v' = Shl(bch_v, bch_pw - 1)
    /\ bch_i' = bch_vw - 1
    /\ bch_pc' = "loop"
    /\ UNCHANGED <<bch_arg, gfvars, ftvars, rsvars>>

\* one iteration of for i in range(vw-1, -1, -1)
BchLoop ==
    /\ bch_pc = "loop" /\ bch_i >= 0
    /\ bch_v' = BchStep(bch_v, bch_p, bch_i)
    /\ bch_i' = bch_i - 1
    /\ UNCHANGED <<bch_arg, bch_pc, gfvars, ftvars, rsvars>>

\* return v
BchReturn ==
    /\ bch_pc = "loop" /\ bch_i < 0
    /\ bch_pc' = "done"
    /\ UNCHANGED <<bch_arg, bch_v, bch_i, gfvars, ftvars, rsvars>>

NextBCH == BchShift \/ BchLoop \/ BchReturn

SpecBCH == InitBCH /\ [][NextBCH]_vars

---------------------------------------------------------------------------
(* rs-test.py: sequences of factor_table calls.                            *)

\* the largest ecc_size tried besides the hard-coded ones
MaxMissSize == 4
\* the number of factor_table calls in one run
MaxCalls == 2

CallSizes == (0..MaxMissSize) \cup DOMAIN FactorTablesInit

InitFT == FtIdle /\ GfIdle /\ BchIdle /\ RsIdle

\* factor_table(n), the try branch: return factor_tables[ecc_size]
FactorTableHit(n) ==
    /\ pc = "idle" /\ ft_pc = "ready" /\ Len(ft_hist) < MaxCalls
    /\ n \in DOMAIN factor_tables
    /\ ft_n' = n
    /\ ft_ret' = factor_tables[n]
    /\ ft_hist' = Append(ft_hist, [n |-> n, ret |-> ft_ret', built |-> FALSE])
    /\ UNCHANGED <<factor_tables, factors, ft_i, ft_j, ft_pc, gfvars,
                   bchvars, rsvars>>

\* factor_table(n), the except(KeyError) branch entered:
\* factors = bytearray(ecc_size)
FactorTableMiss(n) ==
    /\ pc = "idle" /\ ft_pc = "ready" /\ Len(ft_hist) < MaxCalls
    /\ n \notin DOMAIN factor_tables
    /\ ft_n' = n
    /\ factors' = ZeroBytes(n)
    /\ ft_i' = 0 /\ ft_j' = -1
    /\ ft_pc' = "build"
    /\ UNCHANGED <<factor_tables, ft_ret, ft_hist, gfvars, bchvars, rsvars>>

\* one iteration of for j in range(i-1, -1, -1)
BuilderIter ==
    /\ ft_pc = "build" /\ ft_i <= ft_n /\ ft_j >= 0
    /\ factors' = BuilderStep(factors, ft_i, ft_j)
    /\ ft_j' = ft_j - 1
    /\ UNCHANGED <<factor_tables, ft_n, ft_ret, ft_hist, ft_i, ft_pc, gfvars,
                   bchvars, rsvars>>

\* the inner loop ends: the next i of for i in range(ecc_size + 1), whose
\* inner loop starts at j = i - 1
BuilderNextI ==
    /\ ft_pc = "build" /\ ft_i <= ft_n /\ ft_j < 0
    /\ ft_i' = ft_i + 1
    /\ ft_j' = ft_i
    /\ UNCHANGED <<factor_tables, ft_n, ft_ret, ft_hist, factors, ft_pc,
                   gfvars, bchvars, rsvars>>

\* the outer loop ends: the factors are printed and returned
FactorTableReturn ==
    /\ pc = "idle" /\ ft_pc = "build" /\ ft_i > ft_n
    /\ ft_ret' = factors
    /\ factor_tables' = TablesAfterMiss(factor_tables, ft_n, factors)
    /\ ft_hist' = Append(ft_hist, [n |-> ft_n, ret |-> factors,
                                   built |-> TRUE])
    /\ ft_pc' = "ready"
    /\ UNCHANGED <<ft_n, factors, ft_i, ft_j, gfvars, bchvars, rsvars>>

NextFT ==
    \/ \E n \in CallSizes : FactorTableHit(n)
    \/ \E n \in CallSizes : FactorTableMiss(n)
    \/ BuilderIter \/ BuilderNextI \/ FactorTableReturn

SpecFT == InitFT /\ [][NextFT]_vars

\* factor_table with the hard-coded tables removed from factor_tables, so
\* that every ecc_size takes the except branch
InitBuild ==
    /\ factor_tables = <<>>
    /\ ft_n = -1 /\ ft_ret = <<>> /\ ft_hist = <<>>
    /\ factors = <<>> /\ ft_i = 0 /\ ft_j = 0 /\ ft_pc = "ready"
    /\ GfIdle /\ BchIdle /\ RsIdle

NextBuild ==
    \/ \E n \in CallSizes : FactorTableMiss(n)
    \/ BuilderIter \/ BuilderNextI \/ FactorTableReturn

SpecBuild == InitBuild /\ [][NextBuild]_vars

---------------------------------------------------------------------------
(* rs-test.py: the script, from its padding loop to its ECC bytes.         *)

\* the longest sampled data and the largest sampled data_size
MaxLen == 2
MaxDataSize == 3

SampleBytes == {0, 66, 255}
SampleEccSizes == {0, 1, 2, 5}

\* the script's worked examples (10x10, 'A', 12x12) and the 20x20 example
\* its last assignments select: <<data, data_size, ecc_size>>
Examples ==
    { <<(<<142, 164, 186>>), 3, 5>>,
      <<(<<66>>), 3, 5>>,
      <<(<<147, 130, 141, 194>>), 5, 7>>,
      <<(<<232, 131, 133, 175, 161, 150, 130, 130, 141, 147, 139, 141, 155,
           140, 66, 67, 68, 69, 142, 164>>), 22, 18>> }

\* data long enough for the padding loop to reach an index whose pad
\* formula gives 0
LongData ==
    { <<[k \in 1..26 |-> 66], 29, 5>>, <<[k \in 1..27 |-> 66], 29, 5>> }

Sampled ==
    { <<d, ds, es>> :
        d \in UNION { [1..k -> SampleBytes] : k \in 0..MaxLen },
        ds \in 0..MaxDataSize, es \in SampleEccSizes }

Inputs == Examples \cup LongData \cup Sampled

\* lines 105-107: pad_start = len(data); ecc = bytearray(ecc_size); t = 0
InitRS ==
    /\ \E in \in Inputs :
        /\ data0 = in[1] /\ data = in[1]
        /\ data_size = in[2] /\ ecc_size = in[3]
        /\ pad_start = Len(in[1]) /\ pad_i = Len(in[1])
        /\ ecc = ZeroBytes(in[3]) /\ old = ZeroBytes(in[3])
    /\ t = 0 /\ f = <<>> /\ i = 0 /\ j = 0
    /\ pc = "pad" /\ outcome = "none"
    /\ FtIdle /\ GfIdle /\ BchIdle

\* one iteration of for i in range(pad_start, data_size)
PadStep ==
    /\ pc = "pad" /\ pad_i < data_size
    /\ data' = Append(data, PadAppend(pad_i, pad_start))
    /\ pad_i' = pad_i + 1
    /\ UNCHANGED <<data0, data_size, ecc_size, pad_start, ecc, t, f, i, j,
                   old, pc, outcome, gfvars, bchvars, ftvars>>

\* the padding loop ends
PadDone ==
    /\ pc = "pad" /\ pad_i >= data_size
    /\ pc' = "factor"
    /\ UNCHANGED <<data0, data, data_size, ecc_size, pad_start, pad_i, ecc,
                   t, f, i, j, old, outcome, gfvars, bchvars, ftvars>>

\* f = factor_table(ecc_size), the try branch
LoadFactorsHit ==
    /\ pc = "factor" /\ ft_pc = "ready"
    /\ ecc_size \in DOMAIN factor_tables
    /\ ft_n' = ecc_size
    /\ f' = factor_tables[ecc_size]
    /\ i' = 0
    /\ pc' = "rs"
    /\ UNCHANGED <<data0, data, data_size, ecc_size, pad_start, pad_i, ecc,
                   t, j, old, outcome, gfvars, bchvars, factor_tables,
                   ft_ret, ft_hist, factors, ft_i, ft_j, ft_pc>>

\* f = factor_table(ecc_size), the except(KeyError) branch entered; the
\* builder's loops are BuilderIter and BuilderNextI
LoadFactorsMiss ==
    /\ pc = "factor" /\ ft_pc = "ready"
    /\ ecc_size \notin DOMAIN factor_tables
    /\ ft_n' = ecc_size
    /\ factors' = ZeroBytes(ecc_size)
    /\ ft_i' = 0 /\ ft_j' = -1
    /\ ft_pc' = "build"
    /\ UNCHANGED <<rsvars, gfvars, bchvars, factor_tables, ft_ret, ft_hist>>

\* f = factor_table(ecc_size), the built factors returned
LoadFactorsReturn ==
    /\ pc = "factor" /\ ft_pc = "build" /\ ft_i > ft_n
    /\ f' = factors
    /\ ft_ret' = factors
    /\ factor_tables' = TablesAfterMiss(factor_tables, ft_n, factors)
    /\ ft_pc' = "ready"
    /\ i' = 0
    /\ pc' = "rs"
    /\ UNCHANGED <<data0, data, data_size, ecc_size, pad_start, pad_i, ecc,
                   t, j, old, outcome, gfvars, bchvars, ft_n, ft_hist,
                   factors, ft_i, ft_j>>

\* for i in range(data_size): t = data[i] ^ ecc[0]
\* old keeps the accumulator as the previous byte left it
RSByte ==
    /\ pc = "rs" /\ i < data_size /\ ecc_size > 0
    /\ t' = Xor(data[i + 1], ecc[1])
    /\ old' = ecc
    /\ j' = 0
    /\ pc' = "sweep"
    /\ UNCHANGED <<data0, data, data_size, ecc_size, pad_start, pad_i, ecc,
                   f, i, outcome, gfvars, bchvars, ftvars>>

\* t = data[i] ^ ecc[0] with an empty ecc: IndexError ends the script
RSIndexError ==
    /\ pc = "rs" /\ i < data_size /\ ecc_size = 0
    /\ pc' = "done"
    /\ outcome' = "IndexError"
    /\ UNCHANGED <<data0, data, data_size, ecc_size, pad_start, pad_i, ecc,
                   t, f, i, j, old, gfvars, bchvars, ftvars>>

\* one iteration of for j in range(ecc_size)
RSInner ==
    /\ pc = "sweep" /\ j < ecc_size
    /\ ecc' = EccStep(ecc, t, f, j, ecc_size)
    /\ j' = j + 1
    /\ UNCHANGED <<data0, data, data_size, ecc_size, pad_start, pad_i, t, f,
                   i, old, pc, outcome, gfvars, bchvars, ftvars>>

\* the inner loop ends: the next codeword byte
RSByteEnd ==
    /\ pc = "sweep" /\ j >= ecc_size
    /\ i' = i + 1
    /\ pc' = "rs"
    /\ UNCHANGED <<data0, data, data_size, ecc_size, pad_start, pad_i, ecc,
                   t, f, j, old, outcome, gfvars, bchvars, ftvars>>

\* the ECC loop ends: the ecc bytes are printed
RSFinish ==
    /\ pc = "rs" /\ i >= data_size
    /\ pc' = "done"
    /\ outcome' = "ok"
    /\ UNCHANGED <<data0, data, data_size, ecc_size, pad_start, pad_i, ecc,
                   t, f, i, j, old, gfvars, bchvars, ftvars>>

NextRS ==
    \/ PadStep \/ PadDone
    \/ LoadFactorsHit \/ LoadFactorsMiss \/ BuilderIter \/ BuilderNextI
    \/ LoadFactorsReturn
    \/ RSByte \/ RSIndexError \/ RSInner \/ RSByteEnd \/ RSFinish

SpecRS == InitRS /\ [][NextRS]_vars

---------------------------------------------------------------------------
(* Properties of galois_mult, under SpecGF.                                *)

\* C2 as stated: whenever an operand is 0, galois_mult(a, b) returns 0.
C2_ZeroOperandGivesZero ==
    (gf_pc = "done" /\ (op_a = 0 \/ op_b = 0)) => prod = 0

\* C2 amended: whenever an operand is 0, galois_mult(a, b) returns the other
\* operand (galois_log[0] = -255 vanishes modulo 255), and 1 when both are
\* 0; it never returns 0.
C2_ZeroOperandGivesOther ==
    (gf_pc = "done" /\ (op_a = 0 \/ op_b = 0)) =>
        /\ prod = (IF op_a = 0 /\ op_b = 0 THEN 1
                   ELSE IF op_a = 0 THEN op_b ELSE op_a)
        /\ prod # 0

\* C2 witness: galois_mult(0, 7) has returned 7.
C2_Witness == gf_pc = "done" /\ op_a = 0 /\ op_b = 7 /\ prod = 7

\* C7: over the nonzero elements 1..255 galois_mult is commutative, has
\* identity 1 and is associative (its products staying in 1..255).
C7_FieldLaws ==
    (gf_pc = "done" /\ op_a \in 1..255 /\ op_b \in 1..255) =>
        /\ prod \in 1..255
        /\ prod = galois_mult(op_b, op_a)
        /\ (op_b = 1 => prod = op_a)
        /\ \A c \in 1..255 :
              galois_mult(prod, c) = galois_mult(op_a, galois_mult(op_b, c))

\* C7 witness: galois_mult(3, 7) has returned 9, (x+1)(x^2+x+1) = x^3+1.
C7_Witness == gf_pc = "done" /\ op_a = 3 /\ op_b = 7 /\ prod = 9

---------------------------------------------------------------------------
(* Properties of calc_bch, under SpecBCH.                                  *)

RECURSIVE ClMul(_, _)
\* the product of two GF(2) polynomials given as bit masks
ClMul(q, m) ==
    IF q = 0 THEN 0
    ELSE LET rest == 2 * ClMul(q \div 2, m)
         IN  Strict(rest, Xor(IF q % 2 = 1 THEN m ELSE 0, rest))

\* C5: calc_bch(v, 5, 1335, 11) returns r < 2^10 such that (v << 10) XOR r
\* is a GF(2) polynomial multiple of 1335; 0 gives 0, 15 gives 356 and
\* 9 gives 737.
C5_RemainderOfDivision ==
    bch_pc = "done" =>
        /\ bch_v < Pow2(10)
        /\ \E q \in 0..(Pow2(bch_vw) - 1) :
              ClMul(q, 1335) = Xor(Shl(bch_arg, 10), bch_v)
        /\ (bch_arg = 0 => bch_v = 0)
        /\ (bch_arg = 15 => bch_v = 356)
        /\ (bch_arg = 9 => bch_v = 737)

\* C5 witness: calc_bch(9, 5, 1335, 11) has returned 737.
C5_Witness == bch_pc = "done" /\ bch_arg = 9 /\ bch_v = 737

\* C6: for v of bit width at most vw, pw > vw and p of bit width pw, the
\* bit width of the remainder calc_bch returns is strictly less than
\* pw - 1 (the comment above calc_bch); calc_bch(9, 5, 1335, 11) returns
\* 737, of bit width 10 = pw - 1.
C6_WidthBelowPwMinus1 ==
    (bch_pc = "done" /\ bch_arg < Pow2(bch_vw) /\ bch_pw > bch_vw
       /\ BitWidth(bch_p) = bch_pw) =>
        BitWidth(bch_v) < bch_pw - 1

---------------------------------------------------------------------------
(* Properties of factor_table, under SpecBuild (C3) and SpecFT (C8).       *)

\* C3: for every hard-coded ecc_size the general builder, run without the
\* shortcut, returns exactly the table stored in factor_tables for it;
\* [228,48,15,111,62] for 5 and [23,68,144,134,240,92,254] for 7.
C3_BuilderReproducesTables ==
    \A k \in 1..Len(ft_hist) :
        /\ ft_hist[k].built
        /\ ft_hist[k].n \in {5, 7, 10, 12, 14, 18, 20} =>
              ft_hist[k].ret = FactorTablesInit[ft_hist[k].n]
        /\ ft_hist[k].n = 5 => ft_hist[k].ret = <<228, 48, 15, 111, 62>>
        /\ ft_hist[k].n = 7 =>
              ft_hist[k].ret = <<23, 68, 144, 134, 240, 92, 254>>

\* C3 witness: the builder has run for ecc_size 20 and returned the
\* hard-coded table for 20.
C3_Witness ==
    /\ ft_hist # <<>> /\ ft_hist[1].n = 20 /\ ft_hist[1].built
    /\ ft_hist[1].ret = FactorTablesInit[20]

\* C8 as stated: after a call factor_table(n) that built the table, the
\* table is stored in factor_tables under n, and a later call for n does
\* not rebuild it and returns the same sequence.
C8_BuiltTableIsCached ==
    \A k \in 1..Len(ft_hist) :
        ft_hist[k].built =>
            /\ ft_hist[k].n \in DOMAIN factor_tables
            /\ \A m \in (k + 1)..Len(ft_hist) :
                  ft_hist[m].n = ft_hist[k].n =>
                      /\ ~ft_hist[m].built
                      /\ ft_hist[m].ret = ft_hist[k].ret

\* C8 amended: factor_table never modifies factor_tables; a call for an n
\* that is not one of the hard-coded keys runs the builder every time, and
\* every later call for n returns the same sequence as the first call.
C8_RebuiltEachTimeSameResult ==
    /\ factor_tables = FactorTablesInit
    /\ \A k \in 1..Len(ft_hist) :
          /\ ft_hist[k].built = (ft_hist[k].n \notin DOMAIN FactorTablesInit)
          /\ \A m \in (k + 1)..Len(ft_hist) :
                ft_hist[m].n = ft_hist[k].n =>
                    ft_hist[m].ret = ft_hist[k].ret

\* C8 witness: factor_table(3) has been called twice and built the table
\* both times.
C8_Witness ==
    /\ Len(ft_hist) >= 2
    /\ ft_hist[1].n = 3 /\ ft_hist[1].built
    /\ ft_hist[2].n = 3 /\ ft_hist[2].built
    /\ ft_hist[1].ret = <<64, 56, 14>> /\ ft_hist[2].ret = <<64, 56, 14>>

---------------------------------------------------------------------------
(* Properties of the rs-test.py script, under SpecRS.                      *)

\* C1: on the documented worked examples the script ends with the
\* documented pad and ECC bytes.
C1_WorkedExamples ==
    (pc = "done" /\ outcome = "ok") =>
        /\ (data0 = <<142, 164, 186>> /\ data_size = 3 /\ ecc_size = 5) =>
              (data = data0 /\ ecc = <<114, 25, 5, 88, 102>>)
        /\ (data0 = <<66>> /\ data_size = 3 /\ ecc_size = 5) =>
              (data = <<66, 129, 70>> /\ ecc = <<138, 234, 82, 82, 95>>)
        /\ (data0 = <<147, 130, 141, 194>> /\ data_size = 5 /\ ecc_size = 7)
              => (data = <<147, 130, 141, 194, 129>>
                  /\ ecc = <<147, 186, 88, 236, 56, 227, 209>>)

\* C1 witness: the 12x12 example has ended with its documented ECC bytes.
C1_Witness ==
    /\ pc = "done" /\ data0 = <<147, 130, 141, 194>>
    /\ data_size = 5 /\ ecc_size = 7
    /\ ecc = <<147, 186, 88, 236, 56, 227, 209>>

\* C4: for data of length L < data_size the padding loop keeps the first L
\* bytes, extends the data to data_size bytes, puts 129 at index L and, at
\* every index x with L < x < data_size, (((149*(x+1)) mod 253) + 130) mod
\* 254 replaced by 254 when 0; for L = data_size it appends nothing.
C4_Padding ==
    pc \notin {"idle", "pad"} =>
        /\ Len(data0) < data_size =>
              /\ Len(data) = data_size
              /\ \A k \in 1..Len(data0) : data[k] = data0[k]
              /\ data[Len(data0) + 1] = 129
              /\ \A x \in (Len(data0) + 1)..(data_size - 1) :
                    data[x + 1] =
                        (IF (((149 * (x + 1)) % 253) + 130) % 254 = 0
                         THEN 254
                         ELSE (((149 * (x + 1)) % 253) + 130) % 254)
        /\ Len(data0) = data_size => data = data0

\* C4 witness: 26 data bytes padded to 29: 129 at index 26, the replaced
\* byte 254 at index 27, the formula's 150 at index 28.
C4_Witness ==
    /\ pc = "done" /\ Len(data0) = 26 /\ data_size = 29
    /\ data[27] = 129 /\ data[28] = 254 /\ data[29] = 150

\* C9 as stated: with data longer than data_size the script fails with
\* InvalidArgument before computing anything: it never enters the ECC loop
\* and never ends otherwise.
C9_TooLongDataIsRejected ==
    Len(data0) > data_size =>
        /\ pc # "sweep"
        /\ (pc = "done" => outcome = "InvalidArgument")
        /\ (pc = "done" => Len(data) = data_size)

\* the field product of the recurrence in C10
C10_M(x, y) ==
    IF x = 0 THEN 0
    ELSE galois_antilog[((galois_log[x + 1] + galois_log[y + 1]) % 255) + 1]

\* the double-buffered recurrence of C10: the accumulator after codeword
\* byte d, from the accumulator prev left by the previous byte
C10_Recurrence(prev, d, ff, n) ==
    Append([k \in 1..(n - 1) |->
               Xor(C10_M(Xor(d, prev[1]), ff[n - k + 1]), prev[k + 1])],
           C10_M(Xor(d, prev[1]), ff[1]))

RECURSIVE C10_Fold(_, _, _, _, _, _)
\* the recurrence applied to codeword bytes lo..hi (1-based) from the
\* accumulator acc: to the first half of them, then to the rest
C10_Fold(acc, cw, ff, n, lo, hi) ==
    Strict(acc,
           IF lo > hi THEN acc
           ELSE IF lo = hi THEN C10_Recurrence(acc, cw[lo], ff, n)
           ELSE C10_Fold(C10_Fold(acc, cw, ff, n, lo, (lo + hi) \div 2),
                         cw, ff, n, ((lo + hi) \div 2) + 1, hi))

\* C10: during the sweep for a codeword byte, every slot not yet written
\* (ecc[j+1] among them) still holds the previous byte's value and every
\* slot written holds the recurrence's value; after the last byte the
\* in-place accumulator is the recurrence's result.
C10_InPlaceIsDoubleBuffered ==
    /\ pc = "sweep" =>
          /\ t = Xor(data[i + 1], old[1])
          /\ \A k \in 1..ecc_size :
                ecc[k] = (IF k <= j
                          THEN C10_Recurrence(old, data[i + 1], f,
                                              ecc_size)[k]
                          ELSE old[k])
    /\ (pc = "done" /\ outcome = "ok") =>
          ecc = C10_Fold(ZeroBytes(ecc_size), data, f, ecc_size, 1, data_size)

\* C10 witness: in a later byte's sweep, a written slot differs from the
\* previous byte's value while the slot about to be read is nonzero.
C10_Witness ==
    /\ pc = "sweep" /\ i >= 1 /\ j >= 1 /\ j < ecc_size
    /\ t # 0 /\ ecc[j] # old[j] /\ ecc[j + 1] # 0

===========================================================================
